---- MODULE Spec2Model ----
(***************************************************************************)
(* A model of the filesystem tool server, src/src/filesystem/server.py.    *)
(*                                                                         *)
(* The program has one request handler, handle_call_tool(name, arguments), *)
(* and no state of its own: its state is the filesystem it acts on.  The   *)
(* model is that filesystem (a tree of directories and files holding       *)
(* text), the handler's ten branches as ten actions, and the library calls *)
(* the branches make (open/read/write in text mode, os.makedirs,           *)
(* os.listdir, shutil.move, os.walk, fnmatch.fnmatch) as operators with    *)
(* the behaviour CPython gives them on a POSIX system.                     *)
(*                                                                         *)
(* Text is a sequence of tokens.  A token is one character ("a", ".",      *)
(* "\n", "\r") or one literal of the source (such as                       *)
(* "Error reading file: ") that holds no line break and no path separator; *)
(* the text it stands for is the concatenation of its tokens.  A file name *)
(* is a sequence of characters, a path the sequence of the names from the  *)
(* filesystem root, so paths are absolute and normalised: symbolic links,  *)
(* relative paths, permissions and "." / ".." are beyond the model.        *)
(***************************************************************************)
EXTENDS Naturals, Sequences, FiniteSets, TLC

VARIABLES fs, pre, order, last, nops

vars == <<fs, pre, order, last, nops>>

\* ------------------------------------------------------------------ bounds

\* The number of requests served in one behaviour.
MaxOps == 2

\* The longest list given to read_multiple_files.
MaxList == 2

\* ------------------------------------------------------- names, paths, text

CR == "\r"
LF == "\n"
SEP == "/"

a_txt == <<"a", ".", "t", "x", "t">>
b_log == <<"b", ".", "l", "o", "g">>
c_txt == <<"c", ".", "t", "x", "t">>
sub == <<"s", "u", "b">>
lib == <<"l", "i", "b">>

Names == {a_txt, b_log, c_txt, sub, lib}

ROOT == <<>>

Parent(p) == SubSeq(p, 1, Len(p) - 1)

\* os.path.basename of a normalised path that is not the root.
Basename(p) == p[Len(p)]

\* The prefixes of p: the root, p's ancestors and p.
Prefixes(p) == {SubSeq(p, 1, n) : n \in 0..Len(p)}

\* q is p or lies below p.
IsPrefix(p, q) == Len(p) <= Len(q) /\ SubSeq(q, 1, Len(p)) = p

Below(p, q) == IsPrefix(p, q) /\ p # q

\* The text of a path, as the caller writes it and as str() and
\* os.path.join() give it: "/" for the root, "/sub/c.txt" otherwise.
RECURSIVE PathStr(_)
PathStr(p) ==
    IF p = ROOT THEN <<SEP>>
    ELSE IF Len(p) = 1 THEN <<SEP>> \o p[1]
    ELSE PathStr(Parent(p)) \o <<SEP>> \o Basename(p)

\* sep.join(texts)
RECURSIVE Join(_, _)
Join(texts, sepr) ==
    IF texts = <<>> THEN <<>>
    ELSE IF Len(texts) = 1 THEN texts[1]
    ELSE texts[1] \o sepr \o Join(Tail(texts), sepr)

\* ------------------------------------------------------------- filesystem

\* A filesystem is a function from the paths that exist to what is there: a
\* directory, or a file and the data it holds.
Dir == [kind |-> "dir"]
File(data) == [kind |-> "file", data |-> data]
None == [kind |-> "none"]

\* What is at path p, None when nothing is.
Node(f, p) == IF p \in DOMAIN f THEN f[p] ELSE None

Exists(f, p) == p \in DOMAIN f
IsDir(f, p) == p \in DOMAIN f /\ f[p].kind = "dir"
IsFile(f, p) == p \in DOMAIN f /\ f[p].kind = "file"

\* The errno of resolving path p when p itself is not there: ENOTDIR when a
\* component on the way is a file, ENOENT otherwise.
ENOENT == "[Errno 2] No such file or directory: '"
EEXIST == "[Errno 17] File exists: '"
ENOTDIR == "[Errno 20] Not a directory: '"
EISDIR == "[Errno 21] Is a directory: '"

AncestorIsFile(f, p) == \E n \in 1..(Len(p) - 1) : IsFile(f, SubSeq(p, 1, n))

LookupErrno(f, p) == IF AncestorIsFile(f, p) THEN ENOTDIR ELSE ENOENT

\* str(e) of the OSError raised for path p.
OSErrorStr(errno, p) == <<errno>> \o PathStr(p) \o <<"'">>

\* ---------------------------------------------------------- text-mode I/O

\* os.linesep of the platform (POSIX).
linesep == <<LF>>

\* What file.write(content) stores through a text-mode file opened with the
\* default newline=None: every "\n" becomes os.linesep.
RECURSIVE TextWrite(_)
TextWrite(content) ==
    IF content = <<>> THEN <<>>
    ELSE IF Head(content) = LF THEN linesep \o TextWrite(Tail(content))
    ELSE <<Head(content)>> \o TextWrite(Tail(content))

\* What file.read() returns through a text-mode file opened with the default
\* newline=None (universal newlines): "\r\n" and a lone "\r" become "\n".
RECURSIVE TextRead(_)
TextRead(data) ==
    IF data = <<>> THEN <<>>
    ELSE IF Head(data) = CR
    THEN IF Len(data) >= 2 /\ data[2] = LF
         THEN <<LF>> \o TextRead(Tail(Tail(data)))
         ELSE <<LF>> \o TextRead(Tail(data))
    ELSE <<Head(data)>> \o TextRead(Tail(data))

\* open(path, "r"): str(e) of the exception, or the empty text when it opens.
OpenReadError(f, p) ==
    IF IsFile(f, p) THEN <<>>
    ELSE IF IsDir(f, p) THEN OSErrorStr(EISDIR, p)
    ELSE OSErrorStr(LookupErrno(f, p), p)

\* open(path, "w"): str(e) of the exception, or the empty text when it opens.
OpenWriteError(f, p) ==
    IF IsDir(f, p) THEN OSErrorStr(EISDIR, p)
    ELSE IF IsFile(f, p) THEN <<>>
    ELSE IF IsDir(f, Parent(p)) THEN <<>>
    ELSE OSErrorStr(LookupErrno(f, p), p)

\* ------------------------------------------------------- handler outcomes

\* What one call of handle_call_tool leaves: the filesystem, the list of
\* TextContent texts it returns (or the message of the exception it raises),
\* and whether the branch left through its except clause.
Returned(f, texts) == [fs |-> f, raised |-> FALSE, content |-> texts, exc |-> FALSE]
Caught(f, text) == [fs |-> f, raised |-> FALSE, content |-> <<text>>, exc |-> TRUE]
Raised(f, text) == [fs |-> f, raised |-> TRUE, content |-> <<text>>, exc |-> FALSE]

\* ---------------------------------------------------------------- read_file

read_file(f, path) ==
    IF OpenReadError(f, path) = <<>>
    THEN Returned(f, <<TextRead(f[path].data)>>)
    ELSE Caught(f, <<"Error reading file: ">> \o OpenReadError(f, path))

\* ------------------------------------------------------ read_multiple_files

\* One turn of the loop: the text appended to results for one path.
ReadOne(f, path) ==
    IF OpenReadError(f, path) = <<>>
    THEN TextRead(f[path].data)
    ELSE <<"Error reading file ">> \o PathStr(path) \o <<": ">>
             \o OpenReadError(f, path)

\* ReadLoop with the try around the whole loop: the first path that cannot be
\* read ends the reads.
RECURSIVE ReadLoopBreak(_, _, _)
ReadLoopBreak(f, paths, results) ==
    IF paths = <<>> THEN results
    ELSE IF OpenReadError(f, Head(paths)) # <<>> THEN results
    ELSE ReadLoopBreak(f, Tail(paths), Append(results, ReadOne(f, Head(paths))))

RECURSIVE ReadLoop(_, _, _)
ReadLoop(f, paths, results) ==
    IF paths = <<>> THEN results
    ELSE ReadLoop(f, Tail(paths), Append(results, ReadOne(f, Head(paths))))

read_multiple_files(f, paths) == Returned(f, ReadLoop(f, paths, <<>>))

\* --------------------------------------------------------------- write_file

write_file(f, path, content) ==
    IF OpenWriteError(f, path) = <<>>
    THEN Returned([q \in DOMAIN f \cup {path} |->
                      IF q = path THEN File(TextWrite(content)) ELSE f[q]],
                  <<<<"File written to ">> \o PathStr(path)>>)
    ELSE Caught(f, <<"Error writing file: ">> \o OpenWriteError(f, path))

\* --------------------------------------------------------- create_directory

\* The shortest prefix of p that is not a directory: where os.makedirs starts
\* to create, or where it fails.
FirstNotDir(f, p) ==
    SubSeq(p, 1, CHOOSE n \in 1..Len(p) :
                     /\ ~IsDir(f, SubSeq(p, 1, n))
                     /\ \A m \in 1..(n - 1) : IsDir(f, SubSeq(p, 1, m)))

\* MakedirsError without exist_ok=True: an existing directory is an error.
MakedirsErrorNoExistOk(f, p) ==
    IF Exists(f, p) THEN OSErrorStr(EEXIST, p)
    ELSE IF IsFile(f, FirstNotDir(f, p))
    THEN OSErrorStr(ENOTDIR, SubSeq(p, 1, Len(FirstNotDir(f, p)) + 1))
    ELSE <<>>

\* os.makedirs(path, exist_ok=True): str(e) of the exception, or the empty
\* text when it succeeds.
MakedirsError(f, p) ==
    IF IsDir(f, p) THEN <<>>
    ELSE IF IsFile(f, FirstNotDir(f, p))
    THEN IF FirstNotDir(f, p) = p
         THEN OSErrorStr(EEXIST, p)
         ELSE OSErrorStr(ENOTDIR, SubSeq(p, 1, Len(FirstNotDir(f, p)) + 1))
    ELSE <<>>

\* The filesystem after os.makedirs(path, exist_ok=True) succeeded.
makedirs(f, p) ==
    [q \in DOMAIN f \cup Prefixes(p) |-> IF q \in DOMAIN f THEN f[q] ELSE Dir]

create_directory(f, path) ==
    IF MakedirsError(f, path) = <<>>
    THEN Returned(makedirs(f, path), <<<<"Directory created at ">> \o PathStr(path)>>)
    ELSE Caught(f, <<"Error creating directory: ">> \o MakedirsError(f, path))

\* ----------------------------------------------------------- list_directory

\* os.listdir(p) of a directory: the names of its entries in the order the
\* directory is read (ord, an order of all names).
listdir(f, ord, p) ==
    LET Here(n) == Exists(f, Append(p, n))
    IN  SelectSeq(ord, Here)

ListdirError(f, p) ==
    IF IsDir(f, p) THEN <<>>
    ELSE IF IsFile(f, p) THEN OSErrorStr(ENOTDIR, p)
    ELSE OSErrorStr(LookupErrno(f, p), p)

\* The list comprehension of the branch: one tagged line per item.
ListLines(f, p, items) ==
    [i \in 1..Len(items) |->
        IF IsFile(f, Append(p, items[i]))
        THEN <<"[FILE] ">> \o items[i]
        ELSE <<"[DIR] ">> \o items[i]]

list_directory(f, ord, path) ==
    IF ListdirError(f, path) = <<>>
    THEN Returned(f, <<Join(ListLines(f, path, listdir(f, ord, path)), <<LF>>)>>)
    ELSE Caught(f, <<"Error listing directory: ">> \o ListdirError(f, path))

\* ---------------------------------------------------------------- move_file

\* shutil.move's real_dst: inside dst when dst is a directory.
RealDst(f, src, dst) ==
    IF IsDir(f, dst) THEN Append(dst, Basename(src)) ELSE dst

\* shutil.move(src, dst): str(e) of the exception, or the empty text when it
\* succeeds.  os.rename is tried first; when it fails shutil.move falls back
\* to copy2 + unlink for a file and copytree + rmtree for a directory, and
\* the exception that reaches the caller is the fallback's.
MoveError(f, src, dst) ==
    LET rd == RealDst(f, src, dst)
    IN  IF IsDir(f, dst) /\ src = dst THEN <<>>
        ELSE IF IsDir(f, dst) /\ Exists(f, rd)
        THEN <<"Destination path '">> \o PathStr(rd) \o <<"' already exists">>
        ELSE IF ~Exists(f, src) THEN OSErrorStr(LookupErrno(f, src), src)
        ELSE IF IsFile(f, src)
        THEN IF src = rd \/ IsFile(f, rd) \/ IsDir(f, Parent(rd)) THEN <<>>
             ELSE OSErrorStr(LookupErrno(f, rd), rd)
        ELSE IF IsPrefix(src, dst)
        THEN <<"Cannot move a directory '">> \o PathStr(src)
                 \o <<"' into itself '">> \o PathStr(dst) \o <<"'.">>
        ELSE MakedirsError(f, rd)

\* The tree at src taken to rd: os.rename, which replaces a file at rd.
Reloc(f, src, rd) ==
    LET moved == {q \in DOMAIN f : IsPrefix(src, q)}
        kept == {q \in DOMAIN f : ~IsPrefix(src, q) /\ ~IsPrefix(rd, q)}
        To(q) == rd \o SubSeq(q, Len(src) + 1, Len(q))
        From(q) == src \o SubSeq(q, Len(rd) + 1, Len(q))
    IN  [q \in kept \cup {To(m) : m \in moved} |->
            IF q \in kept THEN f[q] ELSE f[From(q)]]

\* The filesystem after shutil.move(src, dst) succeeded.  The missing
\* ancestors of rd are created only on the copytree path (a directory moved
\* to a place whose parent is not there).
shutil_move(f, src, dst) ==
    LET rd == RealDst(f, src, dst)
    IN  IF src = rd \/ src = dst THEN f
        ELSE Reloc(makedirs(f, Parent(rd)), src, rd)

move_file(f, source, destination) ==
    IF MoveError(f, source, destination) = <<>>
    THEN Returned(shutil_move(f, source, destination),
                  <<<<"Moved ">> \o PathStr(source) \o <<" to ">>
                        \o PathStr(destination)>>)
    ELSE Caught(f, <<"Error moving file: ">> \o MoveError(f, source, destination))

\* ------------------------------------------------------------- search_files

\* fnmatch.fnmatch(name, pat) on POSIX (os.path.normcase is the identity):
\* "*" matches any run of characters, "?" any one character, every other
\* character itself.  Patterns with bracket classes are not among the
\* patterns the model draws.
RECURSIVE fnmatch(_, _)
fnmatch(name, pat) ==
    IF pat = <<>> THEN name = <<>>
    ELSE IF Head(pat) = "*"
    THEN fnmatch(name, Tail(pat))
            \/ (name # <<>> /\ fnmatch(Tail(name), pat))
    ELSE IF Head(pat) = "?"
    THEN name # <<>> /\ fnmatch(Tail(name), Tail(pat))
    ELSE name # <<>> /\ Head(name) = Head(pat)
            /\ fnmatch(Tail(name), Tail(pat))

\* os.walk(top), top-down: one (root, dirs, files) triple for top, then the
\* triples of each of its subdirectories in turn.  A top that is not a
\* directory yields nothing (os.walk swallows the scandir error).
RECURSIVE os_walk(_, _, _)
RECURSIVE WalkDirs(_, _, _, _)
os_walk(f, ord, top) ==
    IF ~IsDir(f, top) THEN <<>>
    ELSE LET names == listdir(f, ord, top)
             D(n) == IsDir(f, Append(top, n))
             F(n) == ~IsDir(f, Append(top, n))
             dirs == SelectSeq(names, D)
         IN  <<[root |-> top, dirs |-> dirs, files |-> SelectSeq(names, F)]>>
                 \o WalkDirs(f, ord, top, dirs)

WalkDirs(f, ord, top, dirs) ==
    IF dirs = <<>> THEN <<>>
    ELSE os_walk(f, ord, Append(top, Head(dirs)))
             \o WalkDirs(f, ord, top, Tail(dirs))

\* any(fnmatch.fnmatch(item, exclude) for exclude in exclude_patterns)
AnyExclude(item, exclude_patterns) ==
    \E i \in 1..Len(exclude_patterns) : fnmatch(item, exclude_patterns[i])

\* ItemLoop with break for continue: an excluded item ends the loop over the
\* items of its directory.
RECURSIVE ItemLoopBreak(_, _, _, _)
ItemLoopBreak(root, items, pattern, exclude_patterns) ==
    IF items = <<>> THEN <<>>
    ELSE LET item == Head(items)
             rest == ItemLoopBreak(root, Tail(items), pattern, exclude_patterns)
         IN  IF AnyExclude(item, exclude_patterns) THEN <<>>
             ELSE IF fnmatch(item, pattern)
             THEN <<PathStr(Append(root, item))>> \o rest
             ELSE rest

\* The inner loop over files + dirs of one triple: the paths appended to
\* matches.
RECURSIVE ItemLoop(_, _, _, _)
ItemLoop(root, items, pattern, exclude_patterns) ==
    IF items = <<>> THEN <<>>
    ELSE LET item == Head(items)
             rest == ItemLoop(root, Tail(items), pattern, exclude_patterns)
         IN  IF AnyExclude(item, exclude_patterns) THEN rest
             ELSE IF fnmatch(item, pattern)
             THEN <<PathStr(Append(root, item))>> \o rest
             ELSE rest

\* WalkLoop over dirs + files instead of files + dirs.
RECURSIVE WalkLoopDirsFirst(_, _, _)
WalkLoopDirsFirst(triples, pattern, exclude_patterns) ==
    IF triples = <<>> THEN <<>>
    ELSE ItemLoop(Head(triples).root, Head(triples).dirs \o Head(triples).files,
                  pattern, exclude_patterns)
             \o WalkLoopDirsFirst(Tail(triples), pattern, exclude_patterns)

\* The outer loop over the triples of os.walk.
RECURSIVE WalkLoop(_, _, _)
WalkLoop(triples, pattern, exclude_patterns) ==
    IF triples = <<>> THEN <<>>
    ELSE ItemLoop(Head(triples).root, Head(triples).files \o Head(triples).dirs,
                  pattern, exclude_patterns)
             \o WalkLoop(Tail(triples), pattern, exclude_patterns)

\* Whether the walk visits any item at all.
WalkHasItems(triples) ==
    \E i \in 1..Len(triples) : triples[i].files \o triples[i].dirs # <<>>

\* excl is the excludePatterns argument: [null |-> FALSE, items |-> list], or
\* null |-> TRUE for an explicit null, over which any(...) cannot iterate.
search_files(f, ord, path, pattern, excl) ==
    LET triples == os_walk(f, ord, path)
    IN  IF excl.null /\ WalkHasItems(triples)
        THEN Caught(f, <<"Error searching files: ",
                         "'NoneType' object is not iterable">>)
        ELSE Returned(f, <<Join(WalkLoop(triples, pattern, excl.items), <<LF>>)>>)

\* ------------------------------------------------------------ get_file_info

StatError(f, p) ==
    IF Exists(f, p) THEN <<>> ELSE OSErrorStr(LookupErrno(f, p), p)

\* str(info): the sizes, times and mode bits of os.stat are not modelled and
\* appear as the fields' names.
get_file_info(f, path) ==
    IF StatError(f, path) = <<>>
    THEN Returned(f, <<<<"{'size': st_size, 'creation_time': st_ctime, ",
                         "'modified_time': st_mtime, 'access_time': st_atime, ",
                         "'type': '", IF IsFile(f, path) THEN "file" ELSE "directory",
                         "', 'permissions': st_mode}">>>>)
    ELSE Caught(f, <<"Error getting file info: ">> \o StatError(f, path))

\* ------------------------------------------------- list_allowed_directories

list_allowed_directories(f) == Returned(f, <<<<"List of allowed directories">>>>)

\* -------------------------------------------------------------- else branch

\* raise ValueError(f"Unknown tool: {name}")
unknown_tool(f, name) == Raised(f, <<"Unknown tool: ", name>>)

\* --------------------------------------------------------- handle_call_tool

\* The if/elif chain on the tool's name.
handle_call_tool(f, ord, name, arguments) ==
    CASE name = "read_file" -> read_file(f, arguments.path)
      [] name = "read_multiple_files" -> read_multiple_files(f, arguments.paths)
      [] name = "write_file" -> write_file(f, arguments.path, arguments.content)
      [] name = "create_directory" -> create_directory(f, arguments.path)
      [] name = "list_directory" -> list_directory(f, ord, arguments.path)
      [] name = "move_file" ->
            move_file(f, arguments.source, arguments.destination)
      [] name = "search_files" ->
            search_files(f, ord, arguments.path, arguments.pattern,
                         arguments.excludePatterns)
      [] name = "get_file_info" -> get_file_info(f, arguments.path)
      [] name = "list_allowed_directories" -> list_allowed_directories(f)
      [] OTHER -> unknown_tool(f, name)

\* The names handle_list_tools advertises.
ToolNames ==
    {"read_file", "read_multiple_files", "write_file", "create_directory",
     "list_directory", "move_file", "search_files", "get_file_info",
     "list_allowed_directories"}

\* ------------------------------------------------- the requests of the model

\* File contents and write_file texts: a plain text, a text with a "\r\n"
\* line break, and a text that reads like a failure message.
NotFoundText ==
    <<"Error reading file: ", "[Errno 2] No such file or directory: '",
      "/", "c", ".", "t", "x", "t", "'">>

Contents == {<<"x">>, <<"x", CR, LF, "y">>, NotFoundText}

ReqPaths == {<<a_txt>>, <<c_txt>>, <<sub>>, <<sub, c_txt>>}

WritePaths == {<<a_txt>>, <<c_txt>>, <<sub, c_txt>>}

MultiPaths == {<<a_txt>>, <<c_txt>>}

PathLists == UNION {[1..n -> MultiPaths] : n \in 0..MaxList}

ListPaths == {ROOT, <<sub>>, <<c_txt>>}

SearchBases == {ROOT, <<c_txt>>}

Patterns == {<<"*", ".", "t", "x", "t">>, <<"*">>}

ExcludeArgs ==
    {[null |-> FALSE, items |-> <<>>],
     [null |-> FALSE, items |-> <<<<"a", ".", "*">>>>],
     [null |-> FALSE, items |-> <<<<"s", "*">>>>],
     [null |-> TRUE, items |-> <<>>]}

UnknownNames == {"delete_file"}

\* The orders in which a directory's entries are read.
ReadOrders == {<<a_txt, b_log, c_txt, lib, sub>>, <<sub, lib, c_txt, b_log, a_txt>>}

\* ------------------------------------------------- the initial filesystems

Tree(dirs, files) ==
    [q \in {ROOT} \cup dirs \cup DOMAIN files |->
        IF q \in DOMAIN files THEN File(files[q]) ELSE Dir]

EmptyFS == Tree({}, <<>>)

\* a.txt, b.log and sub/c.txt.
ExampleFS ==
    Tree({<<sub>>},
         (<<a_txt>> :> <<"x">>) @@ (<<b_log>> :> <<"y">>)
             @@ (<<sub, c_txt>> :> <<"x">>))

\* Two directories side by side, and a file with a "\r\n" line break.
TwoDirFS ==
    Tree({<<lib>>, <<sub>>},
         (<<lib, a_txt>> :> <<"x">>) @@ (<<sub, c_txt>> :> <<"y">>)
             @@ (<<b_log>> :> <<"x", CR, LF, "y">>))

InitialTrees == {EmptyFS, ExampleFS, TwoDirFS}

\* ------------------------------------------------------------ state machine

NoRequest ==
    [name |-> "", arguments |-> [path |-> ROOT], raised |-> FALSE,
     content |-> <<>>, exc |-> FALSE]

Init ==
    /\ fs \in InitialTrees
    /\ pre = fs
    /\ order \in ReadOrders
    /\ last = NoRequest
    /\ nops = 0

\* One request served: fs is the filesystem it leaves, pre the one it found,
\* last the request and what handle_call_tool answered.
Serve(name, arguments) ==
    /\ LET r == handle_call_tool(fs, order, name, arguments)
       IN  /\ fs' = r.fs
           /\ last' = [name |-> name, arguments |-> arguments,
                       raised |-> r.raised, content |-> r.content,
                       exc |-> r.exc]
    /\ pre' = fs
    /\ nops' = nops + 1
    /\ UNCHANGED order

ReadFile ==
    /\ nops < MaxOps
    /\ \E p \in ReqPaths : Serve("read_file", [path |-> p])

ReadMultipleFiles ==
    /\ nops < MaxOps
    /\ \E ps \in PathLists : Serve("read_multiple_files", [paths |-> ps])

WriteFile ==
    /\ nops < MaxOps
    /\ \E p \in WritePaths, c \in Contents :
          Serve("write_file", [path |-> p, content |-> c])

CreateDirectory ==
    /\ nops < MaxOps
    /\ \E p \in ReqPaths : Serve("create_directory", [path |-> p])

ListDirectory ==
    /\ nops < MaxOps
    /\ \E p \in ListPaths : Serve("list_directory", [path |-> p])

MoveFile ==
    /\ nops < MaxOps
    /\ \E s \in ReqPaths, d \in ReqPaths :
          Serve("move_file", [source |-> s, destination |-> d])

SearchFiles ==
    /\ nops < MaxOps
    /\ \E p \in SearchBases, pat \in Patterns, ex \in ExcludeArgs :
          Serve("search_files",
                [path |-> p, pattern |-> pat, excludePatterns |-> ex])

GetFileInfo ==
    /\ nops < MaxOps
    /\ \E p \in ListPaths : Serve("get_file_info", [path |-> p])

ListAllowedDirectories ==
    /\ nops < MaxOps
    /\ Serve("list_allowed_directories", [path |-> ROOT])

\* A name that is none of the nine.
UnknownTool ==
    /\ nops < MaxOps
    /\ \E n \in UnknownNames : Serve(n, [path |-> ROOT])

Next ==
    \/ ReadFile
    \/ ReadMultipleFiles
    \/ WriteFile
    \/ CreateDirectory
    \/ ListDirectory
    \/ MoveFile
    \/ SearchFiles
    \/ GetFileInfo
    \/ ListAllowedDirectories
    \/ UnknownTool

Spec == Init /\ [][Next]_vars

\* ======================================================================
\* The claims.
\* ======================================================================

\* The sandbox the claims speak of: the allowed roots, and containment
\* compared on path components.  The program holds no such set.
AllowedRoots == {<<sub>>}

Inside(p) == \E r \in AllowedRoots : IsPrefix(r, p)

\* The lines of a text: its pieces between "\n" tokens.
RECURSIVE SplitLines(_)
SplitLines(text) ==
    IF text = <<>> THEN <<>>
    ELSE IF \E i \in 1..Len(text) : text[i] = LF
    THEN LET i == CHOOSE k \in 1..Len(text) :
                      text[k] = LF /\ \A j \in 1..(k - 1) : text[j] # LF
         IN  <<SubSeq(text, 1, i - 1)>> \o SplitLines(SubSeq(text, i + 1, Len(text)))
    ELSE <<text>>

\* The place of line t among lines, 0 when it is not there.
Pos(lines, t) ==
    IF \E i \in 1..Len(lines) : lines[i] = t
    THEN CHOOSE i \in 1..Len(lines) : lines[i] = t
    ELSE 0

StartsWith(text, prefix) ==
    Len(prefix) <= Len(text) /\ SubSeq(text, 1, Len(prefix)) = prefix

\* The path arguments of a served request, for the operations C1 lists.
PathArgs(l) ==
    CASE l.name \in {"read_file", "write_file", "create_directory",
                     "list_directory", "search_files"} -> {l.arguments.path}
      [] l.name = "read_multiple_files" ->
            {l.arguments.paths[i] : i \in 1..Len(l.arguments.paths)}
      [] l.name = "move_file" -> {l.arguments.source, l.arguments.destination}
      [] OTHER -> {}

\* ---------------------------------------------------------------------- C1
\* C1: a request with a path argument outside every allowed root is rejected
\* (it ends in an error, and for read_multiple_files the slot of that path
\* holds an error message), and the part of the filesystem outside the
\* allowed roots is what it was before the request.
C1_OutsideSandboxRejected ==
    /\ \A p \in PathArgs(last) :
          ~Inside(p) =>
              IF last.name = "read_multiple_files"
              THEN \A i \in 1..Len(last.arguments.paths) :
                      last.arguments.paths[i] = p =>
                          StartsWith(last.content[i], <<"Error reading file ">>)
              ELSE last.exc
    /\ \A q \in DOMAIN fs \cup DOMAIN pre :
          ~Inside(q) => Node(fs, q) = Node(pre, q)

\* ---------------------------------------------------------------------- C2
\* C2: when write_file(p, c) succeeded and the next request is read_file(p),
\* that read returns exactly c as its single content item.
C2_WriteThenReadRoundTrip ==
    [][(/\ last.name = "write_file"
        /\ ~last.exc
        /\ last'.name = "read_file"
        /\ nops' = nops + 1
        /\ last'.arguments.path = last.arguments.path)
          => last'.content = <<last.arguments.content>>]_vars

\* ---------------------------------------------------------------------- C3
\* C3: move_file onto a destination that exists (a file or a directory) fails
\* and leaves the filesystem, source and destination included, as it was.
C3_MoveOntoExistingFails ==
    (last.name = "move_file" /\ Exists(pre, last.arguments.destination))
        => (last.exc /\ fs = pre)

\* ---------------------------------------------------------------------- C4
\* C4: a request whose name is none of the nine returns an error result (no
\* exception leaves handle_call_tool) and the filesystem is unchanged.
C4_UnknownNameReturnsError ==
    (last.name # "" /\ last.name \notin ToolNames)
        => (~last.raised /\ fs = pre)

\* ---------------------------------------------------------------------- C5
\* C5: read_multiple_files returns (never raises, never leaves through an
\* except clause) one text per input path, in input order: slot i is what
\* read_file returns for paths[i] when that file can be read, and otherwise a
\* message that starts "Error reading file <paths[i]>: "; the filesystem is
\* unchanged.
C5_OneResultPerPathInOrder ==
    last.name = "read_multiple_files" =>
        LET paths == last.arguments.paths
        IN  /\ ~last.raised /\ ~last.exc
            /\ fs = pre
            /\ Len(last.content) = Len(paths)
            /\ \A i \in 1..Len(paths) :
                  IF read_file(pre, paths[i]).exc
                  THEN StartsWith(last.content[i],
                                  <<"Error reading file ">> \o PathStr(paths[i])
                                      \o <<": ">>)
                  ELSE <<last.content[i]>> = read_file(pre, paths[i]).content

\* A call whose first path cannot be read and whose second can.
C5_Witness ==
    /\ last.name = "read_multiple_files"
    /\ Len(last.arguments.paths) = 2
    /\ ~Exists(pre, last.arguments.paths[1])
    /\ IsFile(pre, last.arguments.paths[2])
    /\ Len(last.content) = 2

\* ---------------------------------------------------------------------- C6
\* The entries below base that search_files is to report: those whose base
\* name matches pattern and matches no exclude pattern.
Qualifying(f, base, pattern, items) ==
    {q \in DOMAIN f : /\ Below(base, q)
                      /\ fnmatch(Basename(q), pattern)
                   /\ ~AnyExclude(Basename(q), items)}

a_star == <<"a", ".", "*">>
star_txt == <<"*", ".", "t", "x", "t">>

\* C6: a search_files that returns reports, once each, exactly the entries
\* (files and directories) anywhere below path whose base name matches pattern
\* and no exclude pattern, whatever the directories above them match; over
\* a.txt, b.log, sub/c.txt with "*.txt" that is a.txt and sub/c.txt, and with
\* exclude "a.*" it is sub/c.txt alone.
C6_ReportedIffQualifying ==
    (last.name = "search_files" /\ ~last.exc) =>
        LET lines == SplitLines(last.content[1])
            want == Qualifying(pre, last.arguments.path, last.arguments.pattern,
                               last.arguments.excludePatterns.items)
        IN  /\ {lines[i] : i \in 1..Len(lines)} = {PathStr(q) : q \in want}
            /\ Len(lines) = Cardinality(want)
            /\ (/\ pre = ExampleFS
                /\ last.arguments.path = ROOT
                /\ last.arguments.pattern = star_txt)
                  => /\ last.arguments.excludePatterns.items = <<>>
                        => want = {<<a_txt>>, <<sub, c_txt>>}
                     /\ last.arguments.excludePatterns.items = <<a_star>>
                        => want = {<<sub, c_txt>>}

\* The search of the example tree for "*.txt" with exclude "a.*".
C6_Witness ==
    /\ last.name = "search_files"
    /\ ~last.exc
    /\ pre = ExampleFS
    /\ last.arguments.path = ROOT
    /\ last.arguments.pattern = star_txt
    /\ last.arguments.excludePatterns.items = <<a_star>>
    /\ last.content = <<PathStr(<<sub, c_txt>>)>>

\* ---------------------------------------------------------------------- C7
Searched == last.name = "search_files" /\ ~last.exc

\* The entries the last search reported, each with its place in the answer.
Places ==
    LET lines == SplitLines(last.content[1])
        rep == {q \in DOMAIN pre : Pos(lines, PathStr(q)) > 0}
    IN  [q \in rep |-> Pos(lines, PathStr(q))]

\* The place of name n in the directory-read order.
ReadPlace(n) == CHOOSE i \in 1..Len(order) : order[i] = n

Siblings(d, e) == Len(d) = Len(e) /\ Len(d) > 0 /\ Parent(d) = Parent(e) /\ d # e

\* C7 as claimed: every reported entry below a reported directory d comes
\* after d and before every sibling of d reported after d, and reported
\* siblings come in directory-read order.
C7_DepthFirstPreorder ==
    Searched =>
        LET place == Places
            rep == DOMAIN place
        IN  \A d \in rep, e \in rep :
                /\ Below(d, e) =>
                      /\ place[d] < place[e]
                      /\ \A s \in rep :
                            (Siblings(s, d) /\ place[s] > place[d])
                                => place[e] < place[s]
                /\ (Siblings(d, e)
                    /\ ReadPlace(Basename(d)) < ReadPlace(Basename(e)))
                      => place[d] < place[e]

\* C7 as the code has it (os.walk top-down): every reported entry below a
\* reported directory d comes after d and after every reported sibling of d;
\* of the reported entries of one directory the non-directories come first,
\* the subdirectories after them, each group in directory-read order.
C7_WalkOrder ==
    Searched =>
        LET place == Places
            rep == DOMAIN place
        IN  \A d \in rep, e \in rep :
                /\ Below(d, e) =>
                      /\ place[d] < place[e]
                      /\ \A s \in rep : Siblings(s, d) => place[s] < place[e]
                /\ Siblings(d, e) =>
                      (place[d] < place[e]
                          <=> \/ ~IsDir(pre, d) /\ IsDir(pre, e)
                              \/ /\ IsDir(pre, d) = IsDir(pre, e)
                                 /\ ReadPlace(Basename(d))
                                        < ReadPlace(Basename(e)))

\* A search that reports two sibling directories, an entry below the first of
\* them, and a file beside them that the directory is read after.
C7_Witness ==
    /\ Searched
    /\ LET place == Places
           rep == DOMAIN place
       IN  \E d \in rep, e \in rep, s \in rep, x \in rep :
              /\ IsDir(pre, d) /\ IsDir(pre, s) /\ IsFile(pre, x)
              /\ Below(d, e)
              /\ Siblings(s, d) /\ Siblings(x, d)
              /\ place[d] < place[s]
              /\ ReadPlace(Basename(d)) < ReadPlace(Basename(x))

\* ---------------------------------------------------------------------- C8
\* C8: create_directory(path) on a path that is a directory succeeds and
\* leaves the filesystem as it was; on a path that is a file it ends in an
\* error and leaves the filesystem as it was; on a path that is not there and
\* has no file among its ancestors it succeeds, after which path and all its
\* ancestors are directories and every other entry is as it was.  After a
\* success the same call succeeds again and changes nothing.
C8_CreateDirectoryIdempotent ==
    last.name = "create_directory" =>
        LET p == last.arguments.path
        IN  /\ IsDir(pre, p) => (~last.exc /\ fs = pre)
            /\ IsFile(pre, p) => (last.exc /\ fs = pre)
            /\ (~Exists(pre, p) /\ ~AncestorIsFile(pre, p)) =>
                  /\ ~last.exc
                  /\ DOMAIN fs = DOMAIN pre \cup Prefixes(p)
                  /\ \A q \in DOMAIN fs :
                        IF q \in DOMAIN pre THEN fs[q] = pre[q]
                        ELSE IsDir(fs, q)
            /\ ~last.exc =>
                  /\ ~create_directory(fs, p).exc
                  /\ create_directory(fs, p).fs = fs
            /\ ~last.raised

\* create_directory served on a path that already was a directory.
C8_Witness ==
    /\ last.name = "create_directory"
    /\ IsDir(pre, last.arguments.path)
    /\ ~last.exc
    /\ fs = pre

\* ---------------------------------------------------------------------- C9
\* C9: when move_file(source, destination) succeeded and the next request is
\* the same move_file(source, destination), that second request fails and
\* changes nothing.
C9_SameMoveFailsSecondTime ==
    [][(/\ last.name = "move_file"
        /\ ~last.exc
        /\ last'.name = "move_file"
        /\ nops' = nops + 1
        /\ last'.arguments = last.arguments)
          => (last'.exc /\ fs' = fs)]_vars

\* --------------------------------------------------------------------- C10
\* What the caller receives from the requests of one operation that left
\* through the except clause (failed = TRUE) or did not (failed = FALSE).
Responses(outcomes, failed) ==
    {o.content : o \in {x \in outcomes : x.exc = failed /\ ~x.raised}}

ReadOutcomes == {read_file(fs, p) : p \in ReqPaths}

SearchOutcomes ==
    {search_files(fs, order, p, pat, ex) :
        p \in SearchBases, pat \in Patterns, ex \in ExcludeArgs}

ListOutcomes == {list_directory(fs, order, p) : p \in ListPaths}

\* C10: over one filesystem no failed request is answered with the response
\* that a successful request of the same operation is answered with.
C10_FailureDistinguishable ==
    \A outcomes \in {ReadOutcomes, SearchOutcomes, ListOutcomes} :
        Responses(outcomes, TRUE) \cap Responses(outcomes, FALSE) = {}

====
